---- MODULE Spec2Model ----
(***************************************************************************)
(* Model of dash.py, the UK MOD spend dashboard: a Streamlit script that   *)
(* loads a four-column spreadsheet once, reads the filter widgets, filters *)
(* the table and, unless the filtered table is empty, computes KPIs,       *)
(* group-by totals, the Herfindahl-Hirschman index, a pivot, a sorted      *)
(* table and a CSV export.  Every user interaction reruns the whole script *)
(* from its first line; one action of the model is one such rerun.         *)
(*                                                                         *)
(* A pandas Series is a sequence of [key, total] entries (its index order  *)
(* is observable), a DataFrame a sequence of rows carrying their index     *)
(* label.  A float is the exact rational [nan, num, den]: NaN is kept,     *)
(* rounding is not modelled.                                               *)
(***************************************************************************)
EXTENDS Integers, Sequences, FiniteSets, TLC

VARIABLES
    file,          \* the spreadsheet on disk: [cols, rows]
    load_state,    \* "init" | "ok" | "error": how load_data() ended
    df,            \* the loaded DataFrame (rows in file order), <<>> if none
    cat_method,    \* st.radio key="cat_method"
    top_n_cat,     \* st.slider "Number of top categories by spend:"
    search_cat,    \* st.text_input "Search categories:"
    cat_ms,        \* the category multiselect: [id, value]
    area_method,   \* st.radio key="area_method"
    top_n_area,    \* st.slider "Number of top areas by spend:"
    search_area,   \* st.text_input "Search areas:"
    area_ms,       \* the area multiselect: [id, value]
    last_event,    \* what triggered the last run of the script
    out            \* the names the last run of the script bound

vars == <<file, load_state, df, cat_method, top_n_cat, search_cat, cat_ms,
          area_method, top_n_area, search_area, area_ms, last_event, out>>

widgets == <<cat_method, top_n_cat, search_cat, cat_ms,
             area_method, top_n_area, search_area, area_ms>>

----------------------------------------------------------------------------
(* Bounds of the model. *)

\* longest dataset of the pass specification
MaxRecords == 2
\* largest invoice value
MaxValue == 1
\* longest dataset of the session specification
MaxSessionRecords == 2
\* most invoices in a view of the concentration specification
MaxInvoices == 4
\* largest invoice value of the concentration specification
MaxSpend == 1
\* largest n handed to nlargest in the top-N specification
MaxN == 3
\* largest total of a Series entry in the top-N specification
MaxTotal == 2

Categories == {"CatA", "CatB"}
Areas == {"AreaX", "AreaY"}
Suppliers == {"S1", "S2"}
HHISuppliers == {"S1", "S2", "S3", "S4"}
Values == 0 .. MaxValue

\* All labels in lexicographic order: the order groupby(sort=True) gives keys.
LabelOrder == <<"AreaX", "AreaY", "CatA", "CatB", "S1", "S2", "S3", "S4">>

----------------------------------------------------------------------------
(* Program constants. *)

HHI_COMPETITIVE == 1500
HHI_MODERATE == 2500
SLIDER_MIN == 5
SLIDER_MAX == 15
DEFAULT_TOP_N_CAT == 10
DEFAULT_TOP_N_AREA == 8
TOP_SUPPLIERS_N == 15
TOP_SHARE_N == 5
SEARCH_DEFAULT_ALL == 5
SEARCH_DEFAULT_FEW == 3
EXPECTED_COLUMNS == 4

ColumnNames == <<"Expense Type (Category)", "Expense Area (User/BU)",
                 "Supplier", "Invoice Value (GBP)">>

----------------------------------------------------------------------------
(* Sequences and sorting. *)

Range(s) == {s[i] : i \in DOMAIN s}

RECURSIVE SumSeq(_)
SumSeq(s) == IF s = <<>> THEN 0 ELSE Head(s) + SumSeq(Tail(s))

IndexPerms(n) ==
    {p \in [1 .. n -> 1 .. n] : \A i, j \in 1 .. n : i # j => p[i] # p[j]}

Reorder(s, p) == [i \in 1 .. Len(s) |-> s[p[i]]]

\* Every order a sort of `keys` may return: the default sort kind is
\* quicksort, which promises nothing about the order of equal keys.
SortPermutations(keys, ascending) ==
    {p \in IndexPerms(Len(keys)) :
        \A i \in 1 .. Len(keys) - 1 :
            IF ascending THEN keys[p[i]] <= keys[p[i + 1]]
                         ELSE keys[p[i]] >= keys[p[i + 1]]}

\* The stable descending order (a mergesort argsort of the negated keys):
\* equal keys stay in their original order.
StableDescending(keys) ==
    CHOOSE p \in IndexPerms(Len(keys)) :
        \A i \in 1 .. Len(keys) - 1 :
            \/ keys[p[i]] > keys[p[i + 1]]
            \/ keys[p[i]] = keys[p[i + 1]] /\ p[i] < p[i + 1]

----------------------------------------------------------------------------
(* Floats, as exact rationals with NaN. *)

NaN == [nan |-> TRUE, num |-> 0, den |-> 1]
Float(n, d) == [nan |-> FALSE, num |-> n, den |-> d]

\* x / y * 100 for non-negative integers: 0/0 is NaN, nothing is raised.
PercentOf(x, y) == IF y = 0 THEN NaN ELSE Float(100 * x, y)

\* x < c for a float x and an integer c: any comparison with NaN is false.
FloatLess(x, c) == ~x.nan /\ x.num < c * x.den

----------------------------------------------------------------------------
(* DataFrame operations. *)

ValuesOf(view) == [i \in 1 .. Len(view) |-> view[i].value]
TotalsOf(series) == [i \in 1 .. Len(series) |-> series[i].total]
KeysOf(series) == [i \in 1 .. Len(series) |-> series[i].key]

\* df.groupby(col)['Invoice Value (GBP)'].sum(): one entry per key present,
\* keys in sorted order.
GroupSumLastWins(view, col) ==
    LET keys == SelectSeq(LabelOrder,
                          LAMBDA l : \E i \in DOMAIN view : view[i][col] = l)
        rows(k) == SelectSeq(view, LAMBDA r : r[col] = k)
    IN  [k \in 1 .. Len(keys) |->
            [key |-> keys[k],
             total |-> rows(keys[k])[Len(rows(keys[k]))].value]]

GroupSum(view, col) ==
    LET keys == SelectSeq(LabelOrder,
                          LAMBDA l : \E i \in DOMAIN view : view[i][col] = l)
    IN  [k \in 1 .. Len(keys) |->
            [key |-> keys[k],
             total |-> SumSeq(ValuesOf(SelectSeq(view,
                                  LAMBDA r : r[col] = keys[k])))]]

\* df[col].unique(): the labels in order of first appearance.
RECURSIVE UniqueFrom(_, _, _)
UniqueFrom(view, col, seen) ==
    IF view = <<>> THEN <<>>
    ELSE IF Head(view)[col] \in seen THEN UniqueFrom(Tail(view), col, seen)
    ELSE <<Head(view)[col]>>
         \o UniqueFrom(Tail(view), col, seen \cup {Head(view)[col]})

Unique(view, col) == UniqueFrom(view, col, {})

\* Series.nlargest(n), keep='first'.  n >= len takes the slow path,
\* sort_values(ascending=False).head(n), whose order of equal totals is the
\* default sort's; n < len selects with a stable argsort.
NLargestTruncating(series, n) ==
    IF n <= 0 \/ series = <<>> THEN {<<>>}
    ELSE IF n >= Len(series)
    THEN {SubSeq(Reorder(series, p), 1, Len(series) - 1) :
            p \in SortPermutations(TotalsOf(series), FALSE)}
    ELSE {SubSeq(Reorder(series, StableDescending(TotalsOf(series))), 1, n)}

NLargest(series, n) ==
    IF n <= 0 THEN {<<>>}
    ELSE IF n >= Len(series)
    THEN {Reorder(series, p) : p \in SortPermutations(TotalsOf(series), FALSE)}
    ELSE {SubSeq(Reorder(series, StableDescending(TotalsOf(series))), 1, n)}

\* df[cat.isin(selected_categories) & area.isin(selected_areas)]
FilterEither(view, selected_categories, selected_areas) ==
    SelectSeq(view, LAMBDA r : \/ r.category \in selected_categories
                               \/ r.area \in selected_areas)

Filter(view, selected_categories, selected_areas) ==
    SelectSeq(view, LAMBDA r : /\ r.category \in selected_categories
                               /\ r.area \in selected_areas)

\* pivot_table(values, index=category, columns=area, aggfunc='sum',
\* fill_value=0): a dense matrix over the categories and areas present.
PivotTable(view) ==
    LET cats == KeysOf(GroupSum(view, "category"))
        areas == KeysOf(GroupSum(view, "area"))
    IN  [index |-> cats,
         columns |-> areas,
         values |->
            [i \in 1 .. Len(cats) |->
                [j \in 1 .. Len(areas) |->
                    SumSeq(ValuesOf(SelectSeq(view,
                        LAMBDA r : r.category = cats[i] /\ r.area = areas[j])))]]]

----------------------------------------------------------------------------
(* The stages of one run of the script after the filter. *)

MaxOf(s) == IF s = <<>> THEN 0 ELSE CHOOSE m \in Range(s) : \A x \in Range(s) : x <= m

\* Lines 148-172: total spend, supplier count, mean invoice, top share.
KPI(view) ==
    LET total_spend == SumSeq(ValuesOf(view))
    IN  [total_spend |-> total_spend,
         unique_suppliers |-> Len(GroupSum(view, "supplier")),
         avg_invoice |-> IF Len(view) = 0 THEN NaN
                         ELSE Float(total_spend, Len(view)),
         top_supplier_share |->
            PercentOf(MaxOf(TotalsOf(GroupSum(view, "supplier"))), total_spend)]

\* Line 234: (supplier_spend / supplier_spend.sum()) * 100
MarketSharesUnscaled(supplier_spend) ==
    [i \in 1 .. Len(supplier_spend) |->
        [key |-> supplier_spend[i].key,
         share |-> IF SumSeq(TotalsOf(supplier_spend)) = 0 THEN NaN
                   ELSE Float(supplier_spend[i].total,
                              SumSeq(TotalsOf(supplier_spend)))]]

MarketShares(supplier_spend) ==
    [i \in 1 .. Len(supplier_spend) |->
        [key |-> supplier_spend[i].key,
         share |-> PercentOf(supplier_spend[i].total,
                             SumSeq(TotalsOf(supplier_spend)))]]

\* Line 235: (market_shares ** 2).sum().  Series.sum() skips NaN, so an
\* all-NaN Series sums to 0.0.  Every share has the same denominator.
HHI(market_shares) ==
    LET valid == SelectSeq(market_shares, LAMBDA e : ~e.share.nan)
    IN  IF valid = <<>> THEN Float(0, 1)
        ELSE Float(SumSeq([i \in 1 .. Len(valid) |->
                              valid[i].share.num * valid[i].share.num]),
                   valid[1].share.den * valid[1].share.den)

\* Lines 238-249.
HHIInterpretation(hhi) ==
    IF FloatLess(hhi, HHI_COMPETITIVE) THEN "Competitive Market"
    ELSE IF FloatLess(hhi, HHI_MODERATE) THEN "Moderately Concentrated"
    ELSE "Highly Concentrated"

\* Line 257: market_shares.nlargest(5).sum(); every outcome of nlargest has
\* the same sum.
TopShare(market_shares, n) ==
    LET valid == SelectSeq(market_shares, LAMBDA e : ~e.share.nan)
        nums == [i \in 1 .. Len(valid) |->
                    [key |-> valid[i].key, total |-> valid[i].share.num]]
    IN  IF valid = <<>> THEN Float(0, 1)
        ELSE Float(CHOOSE t \in {SumSeq(TotalsOf(top)) : top \in NLargest(nums, n)} : TRUE,
                   valid[1].share.den)

\* Lines 233-257: the concentration block.
Concentration(view) ==
    LET supplier_spend == GroupSum(view, "supplier")
        market_shares == MarketShares(supplier_spend)
        hhi == HHI(market_shares)
    IN  [supplier_spend |-> supplier_spend,
         market_shares |-> market_shares,
         hhi |-> hhi,
         hhi_interpretation |-> HHIInterpretation(hhi),
         top_5_share |-> TopShare(market_shares, TOP_SHARE_N)]

\* Line 384: filtered_df.to_csv(index=False): a header row, then one row of
\* text fields per record, in the frame's own order, the index dropped.
ToCsvSorted(view) ==
    <<ColumnNames>> \o
    [i \in 1 .. Len(view) |->
        LET r == Reorder(view, StableDescending(ValuesOf(view)))[i]
        IN  <<r.category, r.area, r.supplier, ToString(r.value)>>]

ToCsv(view) ==
    <<ColumnNames>> \o
    [i \in 1 .. Len(view) |->
        <<view[i].category, view[i].area, view[i].supplier,
          ToString(view[i].value)>>]

\* Everything the script binds after the st.stop() check, lines 134-391.
Downstream(view) ==
    {KPI(view) @@ Concentration(view) @@
     [category_spend |-> Reorder(GroupSum(view, "category"), pc),
      top_suppliers |-> ts,
      area_spend |-> Reorder(GroupSum(view, "area"), pa),
      heatmap_data |-> PivotTable(view),
      table |-> Reorder(view, pt),
      csv |-> ToCsv(view)] :
        pc \in SortPermutations(TotalsOf(GroupSum(view, "category")), TRUE),
        ts \in NLargest(GroupSum(view, "supplier"), TOP_SUPPLIERS_N),
        pa \in SortPermutations(TotalsOf(GroupSum(view, "area")), FALSE),
        pt \in SortPermutations(ValuesOf(view), FALSE)}

Selected(view, selected_categories, selected_areas) ==
    [selected_categories |-> selected_categories,
     selected_areas |-> selected_areas,
     filtered_df |-> Filter(view, selected_categories, selected_areas)]

\* Lines 121-391: filter, then stop with the error message when nothing
\* matches, else run every stage.
PassWithoutStop(view, selected_categories, selected_areas) ==
    LET s == Selected(view, selected_categories, selected_areas)
    IN  {[state |-> "done"] @@ s @@ d : d \in Downstream(s.filtered_df)}

Pass(view, selected_categories, selected_areas) ==
    LET s == Selected(view, selected_categories, selected_areas)
    IN  IF Len(s.filtered_df) = 0
        THEN {[state |-> "no_data"] @@ s}
        ELSE {[state |-> "done"] @@ s @@ d : d \in Downstream(s.filtered_df)}

----------------------------------------------------------------------------
(* Inputs. *)

RecordKinds(suppliers, values) ==
    [category : Categories, area : Areas, supplier : suppliers, value : values]

\* A frame read from a file has the RangeIndex 0, 1, ...
WithIndex(rows) == [i \in 1 .. Len(rows) |-> [index |-> i - 1] @@ rows[i]]

NotRun == [state |-> "none"]

----------------------------------------------------------------------------
(* The pass specification: one recomputation pass (lines 121-391) of the   *)
(* script over a loaded dataset and a selection, both drawn by Init.  The  *)
(* selection is what the two multiselects hold; the pass runs once.        *)

InitPass ==
    /\ \E n \in 0 .. MaxRecords :
        \E rows \in [1 .. n -> RecordKinds(Suppliers, Values)] :
            df = WithIndex(rows)
    /\ file = [cols |-> <<>>, rows |-> <<>>]
    /\ load_state = "ok"
    /\ cat_method = "Select All"
    /\ top_n_cat = DEFAULT_TOP_N_CAT
    /\ search_cat = <<>>
    /\ cat_ms \in [id : {<<>>}, value : SUBSET Categories]
    /\ area_method = "Select All"
    /\ top_n_area = DEFAULT_TOP_N_AREA
    /\ search_area = <<>>
    /\ area_ms \in [id : {<<>>}, value : SUBSET Areas]
    /\ last_event = "load"
    /\ out = NotRun

Recompute ==
    /\ load_state = "ok"
    /\ out = NotRun
    /\ out' \in Pass(df, cat_ms.value, area_ms.value)
    /\ last_event' = "widget"
    /\ UNCHANGED <<file, load_state, df, widgets>>

NextPass == Recompute

SpecPass == InitPass /\ [][NextPass]_vars

----------------------------------------------------------------------------
(* Properties of one pass, checked under SpecPass. *)

DownstreamNames ==
    {"total_spend", "unique_suppliers", "avg_invoice", "top_supplier_share",
     "category_spend", "top_suppliers", "supplier_spend", "market_shares",
     "hhi", "hhi_interpretation", "top_5_share", "area_spend",
     "heatmap_data", "table", "csv"}

ViewTotal == SumSeq(ValuesOf(out.filtered_df))

CellSum(matrix) == SumSeq([i \in 1 .. Len(matrix) |-> SumSeq(matrix[i])])

\* C1: in every pass with a non-empty filtered view, the per-category
\* totals, the per-area totals, the per-supplier totals and the cells of the
\* category-by-area pivot each add up to the sum of value over the view.
C1_Conservation ==
    out.state = "done" =>
        /\ out.total_spend = ViewTotal
        /\ SumSeq(TotalsOf(out.category_spend)) = ViewTotal
        /\ SumSeq(TotalsOf(out.area_spend)) = ViewTotal
        /\ SumSeq(TotalsOf(out.supplier_spend)) = ViewTotal
        /\ CellSum(out.heatmap_data.values) = ViewTotal

C1_Witness ==
    /\ out.state = "done"
    /\ Len(out.filtered_df) = 2
    /\ Len(out.category_spend) = 1
    /\ Len(out.area_spend) = 2
    /\ Len(out.supplier_spend) = 2
    /\ out.total_spend = 2

Matches(r, selected_categories, selected_areas) ==
    r.category \in selected_categories /\ r.area \in selected_areas

FilteredExactly ==
    out.state # "none" =>
        LET view == out.filtered_df
            sc == out.selected_categories
            sa == out.selected_areas
        IN  /\ \A i \in DOMAIN view :
                /\ view[i].index + 1 \in DOMAIN df
                /\ df[view[i].index + 1] = view[i]
                /\ Matches(view[i], sc, sa)
            /\ \A i, j \in DOMAIN view : i < j => view[i].index < view[j].index
            /\ \A k \in DOMAIN df :
                Matches(df[k], sc, sa) => \E i \in DOMAIN view : view[i] = df[k]
            /\ (sc = {} \/ sa = {}) => view = <<>>

\* C2: the filtered view holds exactly the records of the dataset whose
\* category and area are both selected, in dataset order, none added,
\* duplicated or dropped; an empty set of either kind gives the empty view;
\* no step of the pass changes the dataset.
C2_FilterExact == [](FilteredExactly) /\ [][df' = df]_vars

C2_Witness ==
    /\ out.state = "done"
    /\ Len(df) = 2
    /\ Len(out.filtered_df) = 1
    /\ out.filtered_df[1].index = 1
    /\ out.selected_categories # Categories

\* C3: a pass whose filtered view is empty ends in the no-data state with
\* none of the downstream names bound; a pass whose view is not empty binds
\* all of them.
C3_EmptyViewStops ==
    out.state # "none" =>
        /\ Len(out.filtered_df) = 0 =>
            /\ out.state = "no_data"
            /\ DOMAIN out \cap DownstreamNames = {}
        /\ Len(out.filtered_df) > 0 =>
            /\ out.state = "done"
            /\ DownstreamNames \subseteq DOMAIN out

C3_Witness ==
    /\ out.state = "no_data"
    /\ Len(df) > 0
    /\ out.selected_categories # {}
    /\ out.selected_areas # {}

\* C4: whenever the grand total of the filtered view is 0, the pass reports
\* the no-data condition and evaluates no share division: neither the market
\* shares and HHI nor the top-supplier share are computed.
C4_ZeroTotalIsNoData ==
    (out.state # "none" /\ ViewTotal = 0) =>
        /\ out.state = "no_data"
        /\ DOMAIN out \cap {"market_shares", "hhi", "top_supplier_share"} = {}

ParseNumber(text) == CHOOSE n \in 0 .. MaxValue : ToString(n) = text

\* Reading the export back: the header row is skipped, the value is parsed.
ReadCsv(csv) ==
    [i \in 1 .. Len(csv) - 1 |->
        [index |-> i - 1, category |-> csv[i + 1][1], area |-> csv[i + 1][2],
         supplier |-> csv[i + 1][3], value |-> ParseNumber(csv[i + 1][4])]]

DropIndex(view) ==
    [i \in 1 .. Len(view) |-> [category |-> view[i].category, area |-> view[i].area,
                               supplier |-> view[i].supplier, value |-> view[i].value]]

CsvRoundTrip ==
    /\ out.csv[1] = ColumnNames
    /\ Len(out.csv) = Len(out.filtered_df) + 1
    /\ DropIndex(ReadCsv(out.csv)) = DropIndex(out.filtered_df)

CsvDescending ==
    \A i \in 1 .. Len(out.csv) - 2 :
        ReadCsv(out.csv)[i].value >= ReadCsv(out.csv)[i + 1].value

\* C8 as stated: the export holds one row per record of the filtered view
\* and its rows are ordered by Invoice Value (GBP) descending.
C8_ExportSortedDescending ==
    out.state = "done" => CsvRoundTrip /\ CsvDescending

\* C8 as amended: the export holds one row per record of the filtered view,
\* in the order of the filtered view (the dataset's order); the table shown
\* on screen, not the export, is ordered by Invoice Value (GBP) descending.
C8_ExportInViewOrder ==
    out.state = "done" =>
        /\ CsvRoundTrip
        /\ Len(out.table) = Len(out.filtered_df)
        /\ Range(out.table) = Range(out.filtered_df)
        /\ \A i \in 1 .. Len(out.table) - 1 :
            out.table[i].value >= out.table[i + 1].value

C8_Witness ==
    /\ out.state = "done"
    /\ Len(out.filtered_df) = 2
    /\ out.filtered_df[1].value < out.filtered_df[2].value
    /\ ReadCsv(out.csv)[1].value < ReadCsv(out.csv)[2].value
    /\ out.table[1].value > out.table[2].value

----------------------------------------------------------------------------
(* The concentration specification: the block of lines 233-257 over a      *)
(* non-empty filtered view of invoices to up to four suppliers.            *)

InitHHI ==
    /\ \E n \in 0 .. MaxInvoices :
        \E rows \in [1 .. n -> [category : {"CatA"}, area : {"AreaX"},
                                supplier : HHISuppliers, value : 0 .. MaxSpend]] :
            df = WithIndex(rows)
    /\ file = [cols |-> <<>>, rows |-> <<>>]
    /\ load_state = "ok"
    /\ cat_method = "Select All"
    /\ top_n_cat = DEFAULT_TOP_N_CAT
    /\ search_cat = <<>>
    /\ cat_ms = [id |-> <<>>, value |-> Categories]
    /\ area_method = "Select All"
    /\ top_n_area = DEFAULT_TOP_N_AREA
    /\ search_area = <<>>
    /\ area_ms = [id |-> <<>>, value |-> Areas]
    /\ last_event = "load"
    /\ out = NotRun

ComputeConcentration ==
    /\ out = NotRun
    /\ Len(Filter(df, cat_ms.value, area_ms.value)) # 0
    /\ out' = [state |-> "concentration"]
              @@ Selected(df, cat_ms.value, area_ms.value)
              @@ Concentration(Filter(df, cat_ms.value, area_ms.value))
    /\ last_event' = "widget"
    /\ UNCHANGED <<file, load_state, df, widgets>>

NextHHI == ComputeConcentration

SpecHHI == InitHHI /\ [][NextHHI]_vars

\* C5: the band of every score is the one stated: below 1500 competitive,
\* from 1500 to 2500, both ends included, moderately concentrated, above
\* 2500 highly concentrated.
C5_BandsAsStated ==
    out.state = "concentration" =>
        LET hhi == out.hhi
        IN  /\ hhi.num < HHI_COMPETITIVE * hhi.den =>
                out.hhi_interpretation = "Competitive Market"
            /\ (hhi.num >= HHI_COMPETITIVE * hhi.den /\ hhi.num <= HHI_MODERATE * hhi.den) =>
                out.hhi_interpretation = "Moderately Concentrated"
            /\ hhi.num > HHI_MODERATE * hhi.den =>
                out.hhi_interpretation = "Highly Concentrated"

HoldsAll(supplier_spend) ==
    {i \in DOMAIN supplier_spend :
        supplier_spend[i].total = SumSeq(TotalsOf(supplier_spend))}

\* C6: for a view with a positive grand total and N suppliers, the score
\* lies between 10000/N and 10000, and is 10000 exactly when one supplier
\* holds all of the spend.
C6_HHIBounds ==
    (out.state = "concentration" /\ SumSeq(ValuesOf(out.filtered_df)) > 0) =>
        LET hhi == out.hhi
            N == Len(out.supplier_spend)
        IN  /\ ~hhi.nan
            /\ hhi.den > 0
            /\ 10000 * hhi.den <= N * hhi.num
            /\ hhi.num <= 10000 * hhi.den
            /\ (hhi.num = 10000 * hhi.den) <=> (Cardinality(HoldsAll(out.supplier_spend)) = 1)

C6_Witness ==
    /\ out.state = "concentration"
    /\ Len(out.supplier_spend) = 2
    /\ out.supplier_spend[1].total = 1
    /\ out.supplier_spend[2].total = 2
    /\ out.hhi.num * 9 = 50000 * out.hhi.den

----------------------------------------------------------------------------
(* The top-N specification: Series.nlargest(n) (lines 52, 87, 218, 257,    *)
(* 261) over a Series of group totals in key order, then once more over    *)
(* its own result.                                                         *)

SeriesOver(keys, totals) ==
    LET present == SelectSeq(LabelOrder, LAMBDA l : l \in keys)
    IN  [i \in 1 .. Len(present) |-> [key |-> present[i], total |-> totals[present[i]]]]

InitTopN ==
    /\ \E keys \in SUBSET HHISuppliers :
        \E totals \in [keys -> 0 .. MaxTotal] :
            \E n \in 0 .. MaxN :
                out = [state |-> "series", sums |-> SeriesOver(keys, totals), n |-> n]
    /\ df = <<>>
    /\ file = [cols |-> <<>>, rows |-> <<>>]
    /\ load_state = "ok"
    /\ cat_method = "Top Categories (Default)"
    /\ top_n_cat = DEFAULT_TOP_N_CAT
    /\ search_cat = <<>>
    /\ cat_ms = [id |-> <<>>, value |-> {}]
    /\ area_method = "Top Areas (Default)"
    /\ top_n_area = DEFAULT_TOP_N_AREA
    /\ search_area = <<>>
    /\ area_ms = [id |-> <<>>, value |-> {}]
    /\ last_event = "load"

TopN ==
    /\ out.state = "series"
    /\ \E top \in NLargest(out.sums, out.n) :
        out' = [state |-> "top", top |-> top] @@ out
    /\ UNCHANGED <<file, load_state, df, widgets, last_event>>

TopNAgain ==
    /\ out.state = "top"
    /\ \E again \in NLargest(out.top, out.n) :
        out' = [state |-> "again", again |-> again] @@ out
    /\ UNCHANGED <<file, load_state, df, widgets, last_event>>

NextTopN == TopN \/ TopNAgain

SpecTopN == InitTopN /\ [][NextTopN]_vars

Min(a, b) == IF a <= b THEN a ELSE b

Position(series, e) == CHOOSE i \in DOMAIN series : series[i] = e

\* top holds exactly min(n, len) distinct entries of sums, and no entry
\* left out has a larger total than one taken.
TakesLargest(sums, n, top) ==
    /\ Len(top) = Min(n, Len(sums))
    /\ Range(top) \subseteq Range(sums)
    /\ \A i, j \in DOMAIN top : i # j => top[i] # top[j]
    /\ \A e \in Range(sums) \ Range(top) : \A t \in Range(top) : e.total <= t.total

StrictlyDescending(top) ==
    \A i \in 1 .. Len(top) - 1 : top[i].total > top[i + 1].total

NonIncreasing(top) ==
    \A i \in 1 .. Len(top) - 1 : top[i].total >= top[i + 1].total

\* Equal totals keep the order the keys have in sums.
TiesInKeyOrder(sums, top) ==
    \A i, j \in DOMAIN top :
        (i < j /\ top[i].total = top[j].total) =>
            Position(sums, top[i]) < Position(sums, top[j])

\* Of equal totals at the cut, the earlier keys are the ones taken.
CutKeepsFirst(sums, top) ==
    \A e \in Range(sums) \ Range(top) : \A t \in Range(top) :
        e.total = t.total => Position(sums, t) < Position(sums, e)

\* C7 as stated: topN returns at most min(n, len(sums)) entries, the n
\* largest totals, in strictly descending order of total, ties ordered by
\* original key order, and applying it again with the same n returns the
\* same sequence.
C7_TopNAsStated ==
    "top" \in DOMAIN out =>
        /\ Len(out.top) <= Min(out.n, Len(out.sums))
        /\ TakesLargest(out.sums, out.n, out.top)
        /\ StrictlyDescending(out.top)
        /\ TiesInKeyOrder(out.sums, out.top)
        /\ out.state = "again" => out.again = out.top

\* C7 as amended: topN returns exactly min(n, len(sums)) entries, the n
\* largest totals, in non-increasing order of total; when n < len(sums)
\* equal totals are in original key order and the earlier keys are taken at
\* the cut; applying it again with the same n returns the same entries with
\* the same sequence of totals (the order of keys with equal totals may
\* differ).
C7_TopN ==
    "top" \in DOMAIN out =>
        /\ TakesLargest(out.sums, out.n, out.top)
        /\ NonIncreasing(out.top)
        /\ out.n < Len(out.sums) =>
            /\ TiesInKeyOrder(out.sums, out.top)
            /\ CutKeepsFirst(out.sums, out.top)
        /\ out.state = "again" =>
            /\ TotalsOf(out.again) = TotalsOf(out.top)
            /\ Range(out.again) = Range(out.top)

C7_Witness ==
    /\ out.state = "again"
    /\ out.n = 2
    /\ Len(out.sums) = 3
    /\ out.sums[1].total = out.sums[2].total
    /\ out.sums[2].total = out.sums[3].total
    /\ out.top = SubSeq(out.sums, 1, 2)
    /\ out.again # out.top

----------------------------------------------------------------------------
(* The session: load_data(), the filter widgets and the script's reruns.   *)

\* Column headers a spreadsheet may carry, by what the column holds.
ExpectedLayout == <<"Category", "Area", "Supplier", "Value">>
MisorderedLayout == <<"Area", "Category", "Supplier", "Value">>
MissingLayout == <<"Category", "Area", "Value">>
ExtraLayout == <<"Category", "Area", "Supplier", "Value", "Notes">>
Layouts == {ExpectedLayout, MisorderedLayout, MissingLayout, ExtraLayout}

SessionSuppliers == {"S1"}

\* The spreadsheet holding `rows` under the column order `cols`.
Spreadsheet(cols, rows) ==
    [cols |-> cols,
     rows |-> [i \in 1 .. Len(rows) |->
                [c \in Range(cols) |->
                    CASE c = "Category" -> rows[i].category
                      [] c = "Area" -> rows[i].area
                      [] c = "Supplier" -> rows[i].supplier
                      [] c = "Value" -> rows[i].value
                      [] OTHER -> "note"]]]

\* Lines 14-17: read_excel, then df.columns = [four names], which raises
\* ValueError unless the sheet has four columns and otherwise renames them
\* by position, whatever they held.
ColumnsFit(sheet) == Len(sheet.cols) = EXPECTED_COLUMNS

LoadData(sheet) ==
    [i \in 1 .. Len(sheet.rows) |->
        [index |-> i - 1,
         category |-> sheet.rows[i][sheet.cols[1]],
         area |-> sheet.rows[i][sheet.cols[2]],
         supplier |-> sheet.rows[i][sheet.cols[3]],
         value |-> sheet.rows[i][sheet.cols[4]]]]

LabelChars(label) ==
    CASE label = "CatA" -> <<"C", "a", "t", "A">>
      [] label = "CatB" -> <<"C", "a", "t", "B">>
      [] label = "AreaX" -> <<"A", "r", "e", "a", "X">>
      [] label = "AreaY" -> <<"A", "r", "e", "a", "Y">>

\* str.lower()
LowerChar(c) ==
    CASE c = "A" -> "a" [] c = "B" -> "b" [] c = "C" -> "c"
      [] c = "X" -> "x" [] c = "Y" -> "y" [] OTHER -> c

Lower(text) == [i \in 1 .. Len(text) |-> LowerChar(text[i])]

\* needle in haystack
Contains(haystack, needle) ==
    \E k \in 0 .. Len(haystack) - Len(needle) :
        \A i \in 1 .. Len(needle) : haystack[k + i] = needle[i]

SearchTexts == {<<>>, <<"B">>, <<"X">>}
SliderChoices(default) == {SLIDER_MIN, default, SLIDER_MAX}

CatMethods == {"Top Categories (Default)", "Search & Select", "Select All"}
AreaMethods == {"Top Areas (Default)", "Search & Select", "Select All"}

\* available[:5] if len(available) <= 5 else available[:3]
SearchDefault(available) ==
    IF Len(available) <= SEARCH_DEFAULT_ALL
    THEN SubSeq(available, 1, Min(SEARCH_DEFAULT_ALL, Len(available)))
    ELSE SubSeq(available, 1, SEARCH_DEFAULT_FEW)

SearchOptions(frame, col, text) ==
    IF text # <<>>
    THEN SelectSeq(Unique(frame, col),
                   LAMBDA l : Contains(Lower(LabelChars(l)), Lower(text)))
    ELSE Unique(frame, col)

\* Lines 50-74 and 85-109: what the multiselect of one column is built
\* with, [label, options, default], for every order nlargest may return.
MultiselectArgs(frame, col, method, top_n, text) ==
    IF method \in {"Top Categories (Default)", "Top Areas (Default)"}
    THEN {[label |-> "Selected", options |-> KeysOf(top), default |-> KeysOf(top)] :
            top \in NLargest(GroupSum(frame, col), top_n)}
    ELSE IF method = "Search & Select"
    THEN {[label |-> "Select", options |-> SearchOptions(frame, col, text),
           default |-> SearchDefault(SearchOptions(frame, col, text))]}
    ELSE {[label |-> "Select", options |-> Unique(frame, col),
           default |-> Unique(frame, col)]}

\* st.multiselect without a key: the widget is identified by its arguments
\* and keeps the user's value while they stay the same; with other
\* arguments it is a new widget, holding its default.
Multiselect(state, args) ==
    LET id == <<args.label, Range(args.options), Range(args.default)>>
    IN  IF state.id = id THEN state ELSE [id |-> id, value |-> Range(args.default)]

\* One run of the script from line 36 on: the widgets are read, then the
\* pass runs.  Each outcome is [cat_ms, area_ms, out].
RunScript(frame, cm, tn_cat, s_cat, ms_cat, am, tn_area, s_area, ms_area) ==
    UNION {
        {[cat_ms |-> Multiselect(ms_cat, ca), area_ms |-> Multiselect(ms_area, aa), out |-> o] :
            o \in Pass(frame, Multiselect(ms_cat, ca).value, Multiselect(ms_area, aa).value)} :
        ca \in MultiselectArgs(frame, "category", cm, tn_cat, s_cat),
        aa \in MultiselectArgs(frame, "area", am, tn_area, s_area)}

Rerun(cm, tn_cat, s_cat, ms_cat, am, tn_area, s_area, ms_area) ==
    \E run \in RunScript(df, cm, tn_cat, s_cat, ms_cat, am, tn_area, s_area, ms_area) :
        /\ cat_method' = cm
        /\ top_n_cat' = tn_cat
        /\ search_cat' = s_cat
        /\ cat_ms' = run.cat_ms
        /\ area_method' = am
        /\ top_n_area' = tn_area
        /\ search_area' = s_area
        /\ area_ms' = run.area_ms
        /\ out' = run.out

\* The sheet holds at least one invoice, each of a positive value.
Init ==
    /\ \E n \in 1 .. MaxSessionRecords :
        \E rows \in [1 .. n -> RecordKinds(SessionSuppliers, 1 .. MaxValue)] :
            \E cols \in Layouts :
                file = Spreadsheet(cols, rows)
    /\ load_state = "init"
    /\ df = <<>>
    /\ cat_method = "Top Categories (Default)"
    /\ top_n_cat = DEFAULT_TOP_N_CAT
    /\ search_cat = <<>>
    /\ cat_ms = [id |-> <<>>, value |-> {}]
    /\ area_method = "Top Areas (Default)"
    /\ top_n_area = DEFAULT_TOP_N_AREA
    /\ search_area = <<>>
    /\ area_ms = [id |-> <<>>, value |-> {}]
    /\ last_event = "start"
    /\ out = NotRun

\* Line 19 raises: the script ends there, on this and on every later run.
LoadError ==
    /\ load_state = "init"
    /\ ~ColumnsFit(file)
    /\ load_state' = "error"
    /\ last_event' = "load"
    /\ UNCHANGED <<file, df, widgets, out>>

\* The first run of a session: the sheet is loaded and cached, the widgets
\* are created with their defaults, the pass runs.
FirstRun ==
    /\ load_state = "init"
    /\ ColumnsFit(file)
    /\ load_state' = "ok"
    /\ df' = LoadData(file)
    /\ \E run \in RunScript(LoadData(file), cat_method, top_n_cat, search_cat, cat_ms,
                            area_method, top_n_area, search_area, area_ms) :
        /\ cat_ms' = run.cat_ms
        /\ area_ms' = run.area_ms
        /\ out' = run.out
    /\ last_event' = "load"
    /\ UNCHANGED <<file, cat_method, top_n_cat, search_cat,
                   area_method, top_n_area, search_area>>

\* The radio: the slider and the search box of the method left are no
\* longer on the page, so their state is dropped.
SetCatMethod(m) ==
    /\ load_state = "ok"
    /\ m # cat_method
    /\ Rerun(m, DEFAULT_TOP_N_CAT, <<>>, cat_ms,
             area_method, top_n_area, search_area, area_ms)
    /\ last_event' = "widget"
    /\ UNCHANGED <<file, load_state, df>>

SetTopNCat(n) ==
    /\ load_state = "ok"
    /\ cat_method = "Top Categories (Default)"
    /\ n # top_n_cat
    /\ Rerun(cat_method, n, search_cat, cat_ms,
             area_method, top_n_area, search_area, area_ms)
    /\ last_event' = "widget"
    /\ UNCHANGED <<file, load_state, df>>

SetSearchCat(text) ==
    /\ load_state = "ok"
    /\ cat_method = "Search & Select"
    /\ text # search_cat
    /\ Rerun(cat_method, top_n_cat, text, cat_ms,
             area_method, top_n_area, search_area, area_ms)
    /\ last_event' = "widget"
    /\ UNCHANGED <<file, load_state, df>>

\* The user removes an item from the multiselect, or puts one back.
ToggleCategory(c) ==
    /\ load_state = "ok"
    /\ c \in cat_ms.id[2]
    /\ Rerun(cat_method, top_n_cat, search_cat,
             [cat_ms EXCEPT !.value = (cat_ms.value \ {c}) \cup ({c} \ cat_ms.value)],
             area_method, top_n_area, search_area, area_ms)
    /\ last_event' = "widget"
    /\ UNCHANGED <<file, load_state, df>>

SetAreaMethod(m) ==
    /\ load_state = "ok"
    /\ m # area_method
    /\ Rerun(cat_method, top_n_cat, search_cat, cat_ms,
             m, DEFAULT_TOP_N_AREA, <<>>, area_ms)
    /\ last_event' = "widget"
    /\ UNCHANGED <<file, load_state, df>>

SetTopNArea(n) ==
    /\ load_state = "ok"
    /\ area_method = "Top Areas (Default)"
    /\ n # top_n_area
    /\ Rerun(cat_method, top_n_cat, search_cat, cat_ms,
             area_method, n, search_area, area_ms)
    /\ last_event' = "widget"
    /\ UNCHANGED <<file, load_state, df>>

SetSearchArea(text) ==
    /\ load_state = "ok"
    /\ area_method = "Search & Select"
    /\ text # search_area
    /\ Rerun(cat_method, top_n_cat, search_cat, cat_ms,
             area_method, top_n_area, text, area_ms)
    /\ last_event' = "widget"
    /\ UNCHANGED <<file, load_state, df>>

ToggleArea(a) ==
    /\ load_state = "ok"
    /\ a \in area_ms.id[2]
    /\ Rerun(cat_method, top_n_cat, search_cat, cat_ms,
             area_method, top_n_area, search_area,
             [area_ms EXCEPT !.value = (area_ms.value \ {a}) \cup ({a} \ area_ms.value)])
    /\ last_event' = "widget"
    /\ UNCHANGED <<file, load_state, df>>

\* Lines 113-114: the button only calls st.rerun(); the script runs again
\* with every widget holding the value it had.
ResetFilters ==
    /\ load_state = "ok"
    /\ Rerun(cat_method, top_n_cat, search_cat, cat_ms,
             area_method, top_n_area, search_area, area_ms)
    /\ last_event' = "reset"
    /\ UNCHANGED <<file, load_state, df>>

Next ==
    \/ LoadError
    \/ FirstRun
    \/ \E m \in CatMethods : SetCatMethod(m)
    \/ \E n \in SliderChoices(DEFAULT_TOP_N_CAT) : SetTopNCat(n)
    \/ \E text \in SearchTexts : SetSearchCat(text)
    \/ \E c \in Categories \cup Areas : ToggleCategory(c)
    \/ \E m \in AreaMethods : SetAreaMethod(m)
    \/ \E n \in SliderChoices(DEFAULT_TOP_N_AREA) : SetTopNArea(n)
    \/ \E text \in SearchTexts : SetSearchArea(text)
    \/ \E a \in Categories \cup Areas : ToggleArea(a)
    \/ ResetFilters

Spec == Init /\ [][Next]_vars

----------------------------------------------------------------------------
(* Properties of the session, checked under Spec. *)

\* C9: once loading has ended, a sheet whose columns are not the four
\* expected ones in the expected order has left the session in the load
\* error state, with no dataset and no pass run; only a sheet with the four
\* columns in the expected order has produced a dataset.
C9_LoadRejectsBadColumns ==
    load_state # "init" =>
        IF file.cols = ExpectedLayout
        THEN load_state = "ok"
        ELSE load_state = "error" /\ df = <<>> /\ out = NotRun

\* The selection of a fresh session for one column: every top-N item.
FreshSelection(col, n) == UNION {Range(KeysOf(top)) : top \in NLargest(GroupSum(df, col), n)}

\* C10: after Reset Filters the pass has run with every filter control at
\* its default, so its filtered view is the one of a fresh session.
C10_ResetRestoresDefaults ==
    last_event = "reset" =>
        /\ cat_method = "Top Categories (Default)"
        /\ top_n_cat = DEFAULT_TOP_N_CAT
        /\ area_method = "Top Areas (Default)"
        /\ top_n_area = DEFAULT_TOP_N_AREA
        /\ out.selected_categories = FreshSelection("category", DEFAULT_TOP_N_CAT)
        /\ out.selected_areas = FreshSelection("area", DEFAULT_TOP_N_AREA)
        /\ out.filtered_df = SelectSeq(df, LAMBDA r :
                Matches(r, FreshSelection("category", DEFAULT_TOP_N_CAT),
                           FreshSelection("area", DEFAULT_TOP_N_AREA)))

====
